---- MODULE Spec2Model ----
(***************************************************************************)
(* Client-side session / authentication coordinator of ForenVision:        *)
(* the localStorage credential store, the authFetch / authFetchFormData    *)
(* gateway, the authChange / storage event bus, the App's derived          *)
(* authState and the isLoggingOut logout guard (frontend/src/services/     *)
(* api.js, App.jsx, AdminLayout.jsx, DashboardLayout.jsx).                 *)
(*                                                                         *)
(* Every JavaScript string is a sequence of lexemes; JSON.stringify and    *)
(* JSON.parse are computed over those sequences.  A JavaScript object is   *)
(* the insertion-ordered sequence of its <<key, value>> pairs.  A handler  *)
(* is the sequence of the statements it executes, run by Run.              *)
(***************************************************************************)
EXTENDS Integers, Sequences, FiniteSets, Bags, TLC

VARIABLES
    localStorage,     \* the origin's persisted entries: key -> string
    isLoggingOut,     \* api.js module flag
    timers,           \* ms left of each pending setTimeout of logout(), oldest first
    timerFired,       \* a setTimeout callback of logout() has run on this page
                      \* and logout() has not been called since
    sinceLogout,      \* ms since the most recent self-initiated logout began
                      \* (-1: none yet; capped at LogoutDelay)
    location,         \* path shown by the tab
    reloadPending,    \* a window.location.href assignment has not yet unloaded the page
    inflight,         \* bag of the gateway requests dispatched and not yet answered
    authState,        \* App's useState record
    pendingStorage,   \* storage events queued for this tab (keys)
    last              \* what the most recent step did, as its caller observes it

vars == <<localStorage, isLoggingOut, timers, timerFired, sinceLogout, location,
          reloadPending, inflight, authState, pendingStorage, last>>

----------------------------------------------------------------------------
(* Bounds of the model *)

TickMs == 500
MaxInflight == 1
MaxTimers == 2
MaxPending == 2
\* calls in flight at once where the claim is about concurrent calls
MaxConcurrent == 2

(* Program constants *)

LogoutDelay == 1000

----------------------------------------------------------------------------
(* JavaScript values *)

\* the null returned by localStorage.getItem for a missing key
Null == <<"<null>">>
\* the null / undefined object value
NullObj == << <<"<null>">> >>
Undefined == << <<"<undefined>">> >>

Truthy(s) == s # Null /\ s # <<>>

Tokens == {<<"t1">>, <<"t2">>}
Keys == {"role", "is_approved", "is_available"}
Values == {"admin", "investigator", "true", "false", "null"}

Obj(role, approved) == << <<"role", role>>, <<"is_approved", approved>> >>

\* the identities the backend hands out in a login response
Identities == {Obj("admin", "true"), Obj("investigator", "true"),
               Obj("investigator", "null")}

HasKey(obj, k) == \E i \in 1..Len(obj) : obj[i][1] = k

\* obj[k], undefined when the key is missing (or obj is null, with ?.)
Get(obj, k) ==
    IF obj # NullObj /\ obj # Undefined /\ HasKey(obj, k)
    THEN obj[CHOOSE i \in 1..Len(obj) : obj[i][1] = k][2]
    ELSE "undefined"

\* obj[k] = v : an existing key keeps its position, a new key is appended
Put(obj, k, v) ==
    IF HasKey(obj, k)
    THEN [i \in 1..Len(obj) |-> IF obj[i][1] = k THEN <<k, v>> ELSE obj[i]]
    ELSE Append(obj, <<k, v>>)

\* { ...a, ...b }
RECURSIVE Spread(_, _)
Spread(a, b) ==
    IF b = <<>> THEN a ELSE Spread(Put(a, b[1][1], b[1][2]), Tail(b))

\* deep equality of two objects: same keys, same values, whatever the order
DeepEqual(a, b) ==
    /\ a # NullObj /\ b # NullObj /\ a # Undefined /\ b # Undefined
    /\ \A k \in Keys : Get(a, k) = Get(b, k)

----------------------------------------------------------------------------
(* JSON *)

RECURSIVE StringifyMembers(_)
StringifyMembers(obj) ==
    IF obj = <<>> THEN <<>>
    ELSE LET rest == StringifyMembers(Tail(obj))
             this == IF obj[1][2] = "undefined" THEN <<>>
                     ELSE <<obj[1][1], ":", obj[1][2]>>
         IN  IF this = <<>> THEN rest
             ELSE IF rest = <<>> THEN this
             ELSE this \o <<",">> \o rest

\* JSON.stringify(v); JSON.stringify(undefined) is undefined, which
\* localStorage.setItem then coerces to the string "undefined"
JSONstringify(obj) ==
    IF obj = Undefined THEN <<"undefined">>
    ELSE IF obj = NullObj THEN <<"null">>
    ELSE <<"{">> \o StringifyMembers(obj) \o <<"}">>

SyntaxError == [threw |-> TRUE, value |-> NullObj]
Parsed(v) == [threw |-> FALSE, value |-> v]

RECURSIVE ParseMembers(_, _)
ParseMembers(m, acc) ==
    IF Len(m) < 3 \/ m[1] \notin Keys \/ m[2] # ":" \/ m[3] \notin Values
    THEN SyntaxError
    ELSE LET acc2 == Put(acc, m[1], m[3])
         IN  IF Len(m) = 3 THEN Parsed(acc2)
             ELSE IF Len(m) = 4 \/ m[4] # "," THEN SyntaxError
             ELSE ParseMembers(SubSeq(m, 5, Len(m)), acc2)

\* JSON.parse(s): the value, or a thrown SyntaxError
JSONparse(s) ==
    IF s = <<"null">> THEN Parsed(NullObj)
    ELSE IF Len(s) < 2 \/ s[1] # "{" \/ s[Len(s)] # "}" THEN SyntaxError
    ELSE IF Len(s) = 2 THEN Parsed(<<>>)
    ELSE ParseMembers(SubSeq(s, 2, Len(s) - 1), <<>>)

----------------------------------------------------------------------------
(* localStorage *)

getItem(ls, k) == IF k \in DOMAIN ls THEN ls[k] ELSE Null

setItem(ls, k, v) == [x \in DOMAIN ls \cup {k} |-> IF x = k THEN v ELSE ls[x]]

removeItem(ls, k) == [x \in DOMAIN ls \ {k} |-> ls[x]]

EmptyStore == [x \in {} |-> Null]

\* the keys whose value differs between two stores: one storage event each,
\* delivered to the other tabs of the origin
ChangedKeys(old, new) ==
    {k \in {"token", "user"} : getItem(old, k) # getItem(new, k)
                                 \/ (k \in DOMAIN old) # (k \in DOMAIN new)}

----------------------------------------------------------------------------
(* App: the derived authState *)

Loading == [isLoggedIn |-> FALSE, user |-> NullObj, isLoading |-> TRUE]
\* a logged-out state that leaves isLoading set
StillLoading == [isLoggedIn |-> FALSE, user |-> NullObj, isLoading |-> TRUE]
Anonymous == [isLoggedIn |-> FALSE, user |-> NullObj, isLoading |-> FALSE]
Authenticated(u) == [isLoggedIn |-> TRUE, user |-> u, isLoading |-> FALSE]

\* the pass with a catch block that removes nothing
syncAuthStateKeeping(ls) ==
    LET token == getItem(ls, "token")
        userStr == getItem(ls, "user")
    IN  IF Truthy(token) /\ Truthy(userStr) /\ ~JSONparse(userStr).threw
        THEN [ls |-> ls, st |-> Authenticated(JSONparse(userStr).value)]
        ELSE [ls |-> ls, st |-> Anonymous]

\* one derivation pass: the store it leaves and the state it sets
syncAuthState(ls) ==
    LET token == getItem(ls, "token")
        userStr == getItem(ls, "user")
    IN  IF Truthy(token) /\ Truthy(userStr)
        THEN LET p == JSONparse(userStr)
             IN  IF ~p.threw
                 THEN [ls |-> ls, st |-> Authenticated(p.value)]
                 ELSE [ls |-> removeItem(removeItem(ls, "token"), "user"),
                       st |-> Anonymous]
        ELSE [ls |-> ls, st |-> Anonymous]

\* an event nobody listens to
NoListener(ls, st) == [ls |-> ls, st |-> st]

\* window.dispatchEvent(new Event('authChange')): runs handleAuthChange
\* synchronously once the App's effect has registered it
dispatchAuthChange(ls, st) ==
    IF st.isLoading THEN [ls |-> ls, st |-> st] ELSE syncAuthState(ls)

isAdmin(st) == Get(st.user, "role") = "admin"

----------------------------------------------------------------------------
(* api.js: reads *)

getToken(ls) == getItem(ls, "token")

\* getCurrentUser(): the value returned, or the SyntaxError of JSON.parse
getCurrentUser(ls) ==
    LET userStr == getItem(ls, "user")
    IN  IF Truthy(userStr) THEN JSONparse(userStr) ELSE Parsed(NullObj)

----------------------------------------------------------------------------
(* Statements and their execution *)

\* the mutable context of a handler
Ctx ==
    [ls |-> localStorage, st |-> authState, flag |-> isLoggingOut,
     timers |-> timers, loc |-> location, reload |-> reloadPending]

Exec(stmt, c) ==
    IF stmt[1] = "setItem" THEN [c EXCEPT !.ls = setItem(c.ls, stmt[2], stmt[3])]
    ELSE IF stmt[1] = "removeItem" THEN [c EXCEPT !.ls = removeItem(c.ls, stmt[2])]
    ELSE IF stmt[1] = "authChange"
         THEN LET r == dispatchAuthChange(c.ls, c.st)
              IN  [c EXCEPT !.ls = r.ls, !.st = r.st]
    ELSE IF stmt[1] = "isLoggingOut" THEN [c EXCEPT !.flag = (stmt[2] = "true")]
    ELSE IF stmt[1] = "setTimeout" THEN [c EXCEPT !.timers = Append(c.timers, LogoutDelay)]
    ELSE IF stmt[1] = "href" THEN [c EXCEPT !.loc = stmt[2], !.reload = TRUE]
    ELSE IF stmt[1] = "navigate" THEN [c EXCEPT !.loc = stmt[2]]
    ELSE c   \* alert, fetch, throw, return

RECURSIVE Run(_, _)
Run(prog, c) == IF prog = <<>> THEN c ELSE Run(Tail(prog), Exec(Head(prog), c))

\* the handler's effect on the tab
Apply(prog) ==
    \E c \in {Run(prog, Ctx)} :
        /\ localStorage' = c.ls
        /\ authState' = c.st
        /\ isLoggingOut' = c.flag
        /\ timers' = c.timers
        /\ location' = c.loc
        /\ reloadPending' = c.reload

\* the statements of one kind in a trace
RECURSIVE Select(_, _)
Select(trace, kind) ==
    IF trace = <<>> THEN <<>>
    ELSE IF trace[1][1] = kind THEN <<trace[1]>> \o Select(Tail(trace), kind)
    ELSE Select(Tail(trace), kind)

\* the texts of the notices shown
Alerts(trace) == [i \in 1..Len(Select(trace, "alert")) |-> Select(trace, "alert")[i][2]]

\* the message of the error the handler raises, "" if it raises none
Error(trace) ==
    IF trace # <<>> /\ trace[Len(trace)][1] = "throw" THEN trace[Len(trace)][2] ELSE ""

\* the handler hands the response back to its caller
Returned(trace) == trace # <<>> /\ trace[Len(trace)][1] = "return"

Published(trace) == Len(Select(trace, "authChange"))

----------------------------------------------------------------------------
(* api.js: the gateway *)

NoHeader == <<>>
Bearer(token) == <<"Bearer">> \o token

\* the header never set
NoAuthorization(token) == NoHeader

\* the header set without the if (token) guard
UnguardedAuthorization(token) == Bearer(token)

\* headers['Authorization'], set only under if (token)
AuthorizationHeader(token) == IF Truthy(token) THEN Bearer(token) ELSE NoHeader

ContentType(fn) == IF fn = "authFetch" THEN "application/json" ELSE "-"

ExpiredText == "Your session has expired. Please log in again."
OutdatedText == "Your session is outdated. Please log in again."

AuthenticationFailed == "Authentication failed"
AccessForbidden == "Access forbidden"
FailedToFetch == "Failed to fetch"

Statuses == {200, 401, 403, 500}
\* fetch() rejected: there is no response
NetworkFailure == 0

\* the notice shown whatever the flag
AlwaysNotice(flag, text) == << <<"alert", text>> >>

\* if (!isLoggingOut) alert(text)
Notice(flag, text) == IF ~flag THEN << <<"alert", text>> >> ELSE <<>>

\* the block publishing before it clears
RejectsPublishingFirst(flag, text, msg) ==
    << <<"authChange">>, <<"removeItem", "token">>, <<"removeItem", "user">> >>
    \o Notice(flag, text)
    \o << <<"href", "/login">>, <<"throw", msg>> >>

\* the block without its removal of 'user'
RejectsKeepingUser(flag, text, msg) ==
    << <<"removeItem", "token">>, <<"authChange">> >>
    \o Notice(flag, text)
    \o << <<"href", "/login">>, <<"throw", msg>> >>

\* the body of an if (response.status === ...) block
Rejects(flag, text, msg) ==
    << <<"removeItem", "token">>, <<"removeItem", "user">>, <<"authChange">> >>
    \o Notice(flag, text)
    \o << <<"href", "/login">>, <<"throw", msg>> >>

\* authFetch handing every response back to its caller
authFetchHandsBack(status, flag) ==
    IF status = NetworkFailure THEN << <<"throw", FailedToFetch>> >>
    ELSE << <<"return">> >>

\* authFetch ending the session on every status that is not ok
authFetchClearsNotOk(status, flag) ==
    IF status = NetworkFailure THEN << <<"throw", FailedToFetch>> >>
    ELSE IF status >= 400 THEN Rejects(flag, ExpiredText, AuthenticationFailed)
    ELSE << <<"return">> >>

\* authFetch with its 403 block a copy of the 401 block
authFetchOneBlock(status, flag) ==
    IF status = NetworkFailure THEN << <<"throw", FailedToFetch>> >>
    ELSE IF status \in {401, 403} THEN Rejects(flag, ExpiredText, AuthenticationFailed)
    ELSE << <<"return">> >>

\* the continuation of authFetch after await fetch(...)
authFetch(status, flag) ==
    IF status = NetworkFailure THEN << <<"throw", FailedToFetch>> >>
    ELSE IF status = 401 THEN Rejects(flag, ExpiredText, AuthenticationFailed)
    ELSE IF status = 403 THEN Rejects(flag, OutdatedText, AccessForbidden)
    ELSE << <<"return">> >>

\* authFetchFormData raising an error of its own from its catch block
authFetchFormDataWrapping(status, flag) ==
    IF status = NetworkFailure THEN << <<"throw", "Network error">> >>
    ELSE IF status = 401 THEN Rejects(flag, ExpiredText, AuthenticationFailed)
    ELSE << <<"return">> >>

\* the continuation of authFetchFormData after await fetch(...)
authFetchFormData(status, flag) ==
    IF status = NetworkFailure THEN << <<"throw", FailedToFetch>> >>
    ELSE IF status = 401 THEN Rejects(flag, ExpiredText, AuthenticationFailed)
    ELSE << <<"return">> >>

Gateways == {"authFetch", "authFetchFormData"}

----------------------------------------------------------------------------
(* api.js: session writes *)

\* login(), the if (res.ok) block
login(T, I) ==
    << <<"setItem", "token", T>>, <<"setItem", "user", JSONstringify(I)>>,
       <<"authChange">>, <<"return">> >>

\* logout() without its setTimeout
logoutNoTimer ==
    << <<"isLoggingOut", "true">>, <<"removeItem", "token">>,
       <<"removeItem", "user">>, <<"authChange">>, <<"href", "/login">> >>

logout ==
    << <<"isLoggingOut", "true">>, <<"removeItem", "token">>,
       <<"removeItem", "user">>, <<"authChange">>, <<"href", "/login">>,
       <<"setTimeout", "isLoggingOut=false">> >>

\* updateStoredUser without its if (currentUser)
updateStoredUserUnguarded(ls, userData) ==
    LET currentUser == getCurrentUser(ls)
    IN  IF currentUser.threw THEN << <<"throw", "SyntaxError">> >>
        ELSE << <<"setItem", "user",
                  JSONstringify(Spread(IF currentUser.value = NullObj THEN <<>>
                                       ELSE currentUser.value, userData))>>,
                <<"authChange">> >>

\* updateStoredUser storing userData in place of the merge
updateStoredUserReplacing(ls, userData) ==
    LET currentUser == getCurrentUser(ls)
    IN  IF currentUser.threw THEN << <<"throw", "SyntaxError">> >>
        ELSE IF currentUser.value # NullObj
        THEN << <<"setItem", "user", JSONstringify(userData)>>, <<"authChange">> >>
        ELSE <<>>

updateStoredUser(ls, userData) ==
    LET currentUser == getCurrentUser(ls)
    IN  IF currentUser.threw THEN << <<"throw", "SyntaxError">> >>
        ELSE IF currentUser.value # NullObj
        THEN << <<"setItem", "user",
                  JSONstringify(Spread(currentUser.value, userData))>>,
                <<"authChange">> >>
        ELSE <<>>

\* DashboardLayout.handleLogout
handleLogout == logout \o << <<"navigate", "/login">> >>

\* AdminLayout.handleLogout
AdminHandleLogout ==
    << <<"removeItem", "token">>, <<"removeItem", "user">>, <<"authChange">>,
       <<"navigate", "/login">> >>

----------------------------------------------------------------------------
(* The views' handlers around their API calls *)

\* what ran of a call before its return or throw
Front(prog) == SubSeq(prog, 1, Len(prog) - 1)

\* a catch block that only logs or sets a message
Caught(prog) == Front(prog) \o << <<"catch", Error(prog)>> >>

\* getInvestigators, getInvestigatorDetails, updateInvestigator: the promise
\* of fetch() handed back as it is
getInvestigators(status) ==
    IF status = NetworkFailure THEN << <<"throw", FailedToFetch>> >>
    ELSE << <<"return">> >>

updateInvestigatorAvailability(status) ==
    IF status = NetworkFailure THEN << <<"throw", FailedToFetch>> >>
    ELSE << <<"return">> >>

\* CaseDetail.load after await getCase(id)
load(status, flag) ==
    LET res == authFetch(status, flag)
    IN  IF ~Returned(res) THEN Caught(res)
        ELSE IF status = 200 THEN Front(res)
        ELSE IF status = 401
        THEN Front(res) \o << <<"alert", "Session expired. Please login again.">>,
                              <<"removeItem", "token">>, <<"href", "/login">> >>
        ELSE IF status = 403
        THEN Front(res) \o << <<"alert", "You do not have access to this case.">>,
                              <<"navigate", "/dashboard/cases">> >>
        ELSE Front(res)

SavingFailed == << <<"alert", "Error saving case. Check backend logs.">> >>

\* CreateCase.handleSave after await createCase(...)
handleSave(status, flag) ==
    LET response == authFetch(status, flag)
    IN  IF ~Returned(response)
        THEN Caught(response)
             \o (IF Error(response) # AuthenticationFailed THEN SavingFailed ELSE <<>>)
        ELSE IF status = 200
        THEN Front(response) \o << <<"navigate", "/dashboard/cases">> >>
        ELSE IF status = 401
        THEN Front(response) \o << <<"alert", "Session expired. Please login again.">>,
                                   <<"removeItem", "token">>, <<"navigate", "/login">> >>
        ELSE IF status = 403
        THEN Front(response)
             \o << <<"alert", "Access forbidden. Please check your permissions.">> >>
        ELSE Front(response) \o << <<"catch", "Server error">> >> \o SavingFailed

\* DashboardHome.handleAvailabilityChange after
\* await updateInvestigatorAvailability(newStatus)
handleAvailabilityChange(status, ls, newStatus) ==
    LET response == updateInvestigatorAvailability(status)
        user == getCurrentUser(ls)
    IN  IF ~Returned(response) THEN Caught(response)
        ELSE IF status = 200
        THEN IF user.threw THEN << <<"setMessage", "success">>, <<"catch", "SyntaxError">> >>
             ELSE IF user.value # NullObj
             THEN << <<"setMessage", "success">>,
                     <<"setItem", "user",
                       JSONstringify(Put(user.value, "is_available", newStatus))>> >>
             ELSE << <<"setMessage", "success">> >>
        ELSE << <<"catch", "Failed to update availability">> >>

\* Settings.loadInvestigators after await getInvestigators()
loadInvestigators(status) ==
    LET response == getInvestigators(status)
    IN  IF ~Returned(response) THEN Caught(response) ELSE Front(response)

Callers == {"load", "handleSave", "handleAvailabilityChange", "loadInvestigators"}

\* the argument a handler is called with
Args(caller) ==
    IF caller = "handleAvailabilityChange" THEN {"true", "false"} ELSE {"-"}

----------------------------------------------------------------------------
(* The observation left by a step *)

Did(op) ==
    [op |-> op, fn |-> "-", auth |-> <<>>, status |-> -1, trace |-> <<>>,
     threw |-> FALSE, tok |-> Null, obj |-> NullObj, before |-> Null]

Mounted == ~authState.isLoading

ClearBoth(ls) == removeItem(removeItem(ls, "token"), "user")

Max(a, b) == IF a > b THEN a ELSE b
Min(a, b) == IF a < b THEN a ELSE b

\* the suppression window of the most recent self-initiated logout is open
InWindow == sinceLogout >= 0 /\ sinceLogout < LogoutDelay

----------------------------------------------------------------------------
(* App: the route table *)

Paths == {"/login", "/dashboard/home", "/dashboard/admin"}

Home(st) == IF isAdmin(st) THEN "/dashboard/admin" ELSE "/dashboard/home"

\* the element renders its view
Stay(path) == [to |-> path, purge |-> FALSE, view |-> TRUE]

\* the element is <Navigate to=... replace />
Go(to) == [to |-> to, purge |-> FALSE, view |-> FALSE]

\* allowedRoles = null, the default of the parameter
NullRoles == {"<null>"}

\* allowedRoles && !allowedRoles.includes(authState.user?.role)
Excluded(allowedRoles, st) ==
    allowedRoles # NullRoles /\ Get(st.user, "role") \notin allowedRoles

\* ProtectedRoute sending a role that is not allowed to the login page
ProtectedRouteToLogin(path, allowedRoles, st) ==
    IF ~st.isLoggedIn THEN Go("/login")
    ELSE IF Excluded(allowedRoles, st) THEN Go("/login")
    ELSE Stay(path)

ProtectedRoute(path, allowedRoles, st) ==
    IF ~st.isLoggedIn THEN Go("/login")
    ELSE IF Excluded(allowedRoles, st) THEN Go(Home(st))
    ELSE Stay(path)

ProtectedRouteWithApproval(path, allowedRoles, st) ==
    IF ~st.isLoggedIn THEN Go("/login")
    ELSE IF Excluded(allowedRoles, st) THEN Go(Home(st))
    ELSE IF /\ Get(st.user, "role") = "investigator"
            /\ Get(st.user, "is_approved") \in {"false", "null"}
         THEN [to |-> "/login", purge |-> TRUE, view |-> FALSE]
    ELSE Stay(path)

\* what rendering the element of the route at path does: where it sends the
\* tab (path itself when a view is rendered) and whether it empties the store
Route(path, st) ==
    IF path = "/login"
    THEN IF st.isLoggedIn THEN Go(Home(st)) ELSE Stay(path)
    ELSE IF path \in {"/dashboard/home", "/dashboard/cases"}
    THEN ProtectedRouteWithApproval(path, {"investigator"}, st)
    ELSE IF path = "/dashboard/admin"
    THEN ProtectedRoute(path, {"admin"}, st)
    ELSE Stay(path)

\* the view of the current path is on screen
Shown(path) ==
    /\ Mounted
    /\ location = path
    /\ Route(path, authState) = Stay(path)

\* whether the chain of <Navigate> elements from path ends in a view within n
\* redirects, authState staying as it is
RECURSIVE Resolves(_, _, _)
Resolves(path, st, n) ==
    LET r == Route(path, st)
    IN  r.view \/ (n > 0 /\ Resolves(r.to, st, n - 1))

\* the view the chain from path ends in, "" if it has not ended in n redirects
RECURSIVE Lands(_, _, _)
Lands(path, st, n) ==
    LET r == Route(path, st)
    IN  IF r.view THEN path
        ELSE IF n > 0 THEN Lands(r.to, st, n - 1)
        ELSE ""

----------------------------------------------------------------------------
Init ==
    /\ localStorage = EmptyStore
    /\ isLoggingOut = FALSE
    /\ timers = <<>>
    /\ timerFired = FALSE
    /\ sinceLogout = -1
    /\ location = "/login"
    /\ reloadPending = FALSE
    /\ inflight = EmptyBag
    /\ authState = Loading
    /\ pendingStorage = <<>>
    /\ last = Did("load")

----------------------------------------------------------------------------
(* App *)

\* the mount effect: initial syncAuthState, listeners registered
AppMount ==
    /\ authState.isLoading
    /\ LET r == syncAuthState(localStorage)
       IN  /\ localStorage' = r.ls
           /\ authState' = r.st
    /\ last' = [Did("mount") EXCEPT !.before = getItem(localStorage, "user")]
    /\ UNCHANGED <<isLoggingOut, timers, timerFired, sinceLogout, location,
                   reloadPending, inflight, pendingStorage>>

\* the document is replaced after window.location.href = '/login'
PageLoad ==
    /\ reloadPending
    /\ reloadPending' = FALSE
    /\ location' = "/login"
    /\ isLoggingOut' = FALSE
    /\ timers' = <<>>
    /\ timerFired' = FALSE
    /\ inflight' = EmptyBag
    /\ pendingStorage' = <<>>
    /\ authState' = Loading
    /\ last' = Did("load")
    /\ UNCHANGED <<localStorage, sinceLogout>>

\* a <Navigate replace /> element is rendered
Redirect ==
    /\ Mounted
    /\ LET r == Route(location, authState)
       IN  /\ ~r.view
           /\ location' = r.to
           /\ localStorage' = IF r.purge THEN ClearBoth(localStorage)
                              ELSE localStorage
    /\ last' = Did("redirect")
    /\ UNCHANGED <<isLoggingOut, timers, timerFired, sinceLogout, reloadPending,
                   inflight, authState, pendingStorage>>

\* a listener that runs the pass whatever the key
handleStorageChangeAnyKey(key, ls, st) == syncAuthState(ls)

\* a listener that never runs the pass
handleStorageChangeNever(key, ls, st) == [ls |-> ls, st |-> st]

\* handleStorageChange(e)
handleStorageChange(key, ls, st) ==
    IF key \in {"token", "user", "null"} THEN syncAuthState(ls)
    ELSE [ls |-> ls, st |-> st]

\* a storage event is delivered to this tab
StorageEvent ==
    /\ pendingStorage # <<>>
    /\ pendingStorage' = Tail(pendingStorage)
    /\ LET key == Head(pendingStorage)
           r == IF Mounted THEN handleStorageChange(key, localStorage, authState)
                ELSE [ls |-> localStorage, st |-> authState]
       IN  /\ localStorage' = r.ls
           /\ authState' = r.st
    /\ last' = Did("storage")
    /\ UNCHANGED <<isLoggingOut, timers, timerFired, sinceLogout, location,
                   reloadPending, inflight>>

----------------------------------------------------------------------------
(* The session operations of this tab *)

\* the Login view's login() call is answered with a 2xx
LoginSuccess(T, I) ==
    /\ Mounted
    /\ location = "/login"
    /\ Apply(login(T, I))
    /\ last' = [Did("login") EXCEPT !.tok = T, !.obj = I, !.trace = login(T, I),
                                    !.before = getToken(localStorage)]
    /\ UNCHANGED <<timerFired, sinceLogout, inflight, pendingStorage>>

Partials == { << <<"is_available", "false">> >>, << <<"is_available", "true">> >> }

\* a profile update of the dashboard calls updateStoredUser(userData)
UpdateStoredUser(userData) ==
    /\ Shown("/dashboard/home")
    /\ Apply(updateStoredUser(localStorage, userData))
    /\ last' = [Did("updateStoredUser") EXCEPT
                  !.obj = userData,
                  !.before = getItem(localStorage, "user"),
                  !.trace = updateStoredUser(localStorage, userData)]
    /\ UNCHANGED <<timerFired, sinceLogout, inflight, pendingStorage>>

\* a dashboard view (Cases, CaseDetail, DashboardHome) reads getCurrentUser()
ReadCurrentUser ==
    /\ Shown("/dashboard/home")
    /\ LET cu == getCurrentUser(localStorage)
       IN  last' = [Did("getCurrentUser") EXCEPT !.threw = cu.threw, !.obj = cu.value]
    /\ UNCHANGED <<localStorage, isLoggingOut, timers, timerFired, sinceLogout,
                   location, reloadPending, inflight, authState, pendingStorage>>

\* the Logout button of the investigator dashboard
Logout ==
    /\ Shown("/dashboard/home")
    /\ Len(timers) < MaxTimers
    /\ Apply(handleLogout)
    /\ timerFired' = FALSE
    /\ sinceLogout' = 0
    /\ last' = [Did("logout") EXCEPT !.trace = handleLogout]
    /\ UNCHANGED <<inflight, pendingStorage>>

\* the Logout button of the admin dashboard
AdminLogout ==
    /\ Shown("/dashboard/admin")
    /\ Apply(AdminHandleLogout)
    /\ sinceLogout' = 0
    /\ last' = [Did("adminLogout") EXCEPT !.trace = AdminHandleLogout]
    /\ UNCHANGED <<timerFired, inflight, pendingStorage>>

\* a callback that leaves the flag set
KeepFlag == TRUE

\* the callback of logout()'s setTimeout
ResetFlag == FALSE

\* the oldest setTimeout callback runs, not before its delay has passed
TimerFire ==
    /\ timers # <<>>
    /\ Head(timers) = 0
    /\ timers' = Tail(timers)
    /\ isLoggingOut' = ResetFlag
    /\ timerFired' = TRUE
    /\ last' = Did("timer")
    /\ UNCHANGED <<localStorage, sinceLogout, location, reloadPending, inflight,
                   authState, pendingStorage>>

\* TickMs pass
Tick ==
    /\ InWindow \/ \E i \in 1..Len(timers) : timers[i] > 0
    /\ timers' = IF timers = <<>> THEN <<>>
                 ELSE [i \in 1..Len(timers) |-> Max(0, timers[i] - TickMs)]
    /\ sinceLogout' = IF sinceLogout < 0 THEN sinceLogout
                      ELSE Min(LogoutDelay, sinceLogout + TickMs)
    /\ last' = Did("env")
    /\ UNCHANGED <<localStorage, isLoggingOut, timerFired, location, reloadPending,
                   inflight, authState, pendingStorage>>

----------------------------------------------------------------------------
(* Gateway calls *)

\* authFetch / authFetchFormData up to the await fetch(...)
IssueUpTo(fn, max) ==
    /\ Shown("/dashboard/home") \/ Shown("/dashboard/admin")
    /\ BagCardinality(inflight) < max
    /\ LET token == getToken(localStorage)
           req == [fn |-> fn, auth |-> AuthorizationHeader(token),
                   contentType |-> ContentType(fn)]
       IN  /\ inflight' = inflight (+) SetToBag({req})
           /\ last' = [Did("issue") EXCEPT !.fn = fn, !.auth = req.auth,
                                           !.trace = << <<"fetch">> >>]
    /\ UNCHANGED <<localStorage, isLoggingOut, timers, timerFired, sinceLogout,
                   location, reloadPending, authState, pendingStorage>>

IssueRequest(fn) == IssueUpTo(fn, MaxInflight)

\* the continuation after the await, on a response or a rejected fetch
Respond(req, status) ==
    /\ BagIn(req, inflight)
    /\ inflight' = inflight (-) SetToBag({req})
    /\ LET prog == IF req.fn = "authFetch" THEN authFetch(status, isLoggingOut)
                   ELSE authFetchFormData(status, isLoggingOut)
       IN  /\ Apply(prog)
           /\ last' = [Did("respond") EXCEPT !.fn = req.fn, !.status = status,
                                             !.trace = prog]
    /\ UNCHANGED <<timerFired, sinceLogout, pendingStorage>>

----------------------------------------------------------------------------
(* Another tab of the same origin running the same code *)

Events(old, new) ==
    (IF "token" \in ChangedKeys(old, new) THEN <<"token">> ELSE <<>>)
    \o (IF "user" \in ChangedKeys(old, new) THEN <<"user">> ELSE <<>>)

OtherTabWrites(new) ==
    /\ new # localStorage
    /\ Len(pendingStorage) + Len(Events(localStorage, new)) <= MaxPending
    /\ localStorage' = new
    /\ pendingStorage' = pendingStorage \o Events(localStorage, new)
    /\ last' = Did("env")
    /\ UNCHANGED <<isLoggingOut, timers, timerFired, sinceLogout, location,
                   reloadPending, inflight, authState>>

\* the logins answered in the other tab
OtherTokens == {<<"t2">>}
OtherIdentities == {Obj("investigator", "true"), Undefined}

\* login() there: the two setItem calls
OtherTabLogin(T, I) ==
    OtherTabWrites(setItem(setItem(localStorage, "token", T),
                           "user", JSONstringify(I)))

\* logout(), handleLogout or a gateway 401 / 403 there
OtherTabClear == OtherTabWrites(ClearBoth(localStorage))

\* its App's derivation pass purging an identity that does not parse
OtherTabSync == OtherTabWrites(syncAuthState(localStorage).ls)

----------------------------------------------------------------------------
Next ==
    \/ AppMount
    \/ PageLoad
    \/ Redirect
    \/ StorageEvent
    \/ \E T \in Tokens, I \in Identities \cup {Undefined} : LoginSuccess(T, I)
    \/ \E userData \in Partials : UpdateStoredUser(userData)
    \/ ReadCurrentUser
    \/ Logout
    \/ AdminLogout
    \/ TimerFire
    \/ Tick
    \/ \E fn \in Gateways : IssueRequest(fn)
    \/ \E req \in BagToSet(inflight), status \in Statuses \cup {NetworkFailure} :
          Respond(req, status)
    \/ \E T \in OtherTokens, I \in OtherIdentities : OtherTabLogin(T, I)
    \/ OtherTabClear
    \/ OtherTabSync

Spec == Init /\ [][Next]_vars

\* the event loop: time passes and a timer whose delay has elapsed runs its
\* callback; a navigation, a response or a click may never come
TimerSpec == Spec /\ WF_vars(Tick) /\ WF_vars(TimerFire)

----------------------------------------------------------------------------
(* The tab with the views' handlers around the API calls *)

InvestigatorView == Shown("/dashboard/home") \/ Shown("/dashboard/cases")

PleaseLogin == << <<"alert", "Please login first">>, <<"navigate", "/login">> >>

\* a handler of a view up to its await; CreateCase.handleSave returns early
\* when no token is stored
Call(caller, arg) ==
    /\ IF caller = "loadInvestigators" THEN Shown("/dashboard/admin")
       ELSE InvestigatorView
    /\ BagCardinality(inflight) < MaxInflight
    /\ LET token == getToken(localStorage)
           req == [fn |-> caller, arg |-> arg,
                   auth |-> IF caller \in {"load", "handleSave"}
                            THEN AuthorizationHeader(token)
                            ELSE UnguardedAuthorization(token)]
       IN  IF caller = "handleSave" /\ ~Truthy(token)
           THEN /\ Apply(PleaseLogin)
                /\ inflight' = inflight
                /\ last' = [Did("call") EXCEPT !.fn = caller, !.trace = PleaseLogin]
           ELSE /\ inflight' = inflight (+) SetToBag({req})
                /\ last' = [Did("call") EXCEPT !.fn = caller, !.auth = req.auth,
                                                !.trace = << <<"fetch">> >>]
                /\ UNCHANGED <<localStorage, isLoggingOut, timers, location,
                               reloadPending, authState>>
    /\ UNCHANGED <<timerFired, sinceLogout, pendingStorage>>

\* the rest of the handler, once its call is answered or fetch() has rejected
Settle(req, status) ==
    /\ BagIn(req, inflight)
    /\ inflight' = inflight (-) SetToBag({req})
    /\ LET prog == IF req.fn = "load" THEN load(status, isLoggingOut)
                   ELSE IF req.fn = "handleSave" THEN handleSave(status, isLoggingOut)
                   ELSE IF req.fn = "handleAvailabilityChange"
                   THEN handleAvailabilityChange(status, localStorage, req.arg)
                   ELSE loadInvestigators(status)
       IN  /\ Apply(prog)
           /\ last' = [Did("settle") EXCEPT !.fn = req.fn, !.status = status,
                                            !.auth = req.auth, !.trace = prog]
    /\ UNCHANGED <<timerFired, sinceLogout, pendingStorage>>

\* another tab, or the browser, writes an entry this program never reads
OtherKeyWritten ==
    /\ Len(pendingStorage) < MaxPending
    /\ pendingStorage' = Append(pendingStorage, "theme")
    /\ last' = Did("env")
    /\ UNCHANGED <<localStorage, isLoggingOut, timers, timerFired, sinceLogout,
                   location, reloadPending, inflight, authState>>

\* the origin's storage is cleared as a whole: one event with key null
StorageCleared ==
    /\ localStorage # EmptyStore
    /\ Len(pendingStorage) < MaxPending
    /\ localStorage' = EmptyStore
    /\ pendingStorage' = Append(pendingStorage, "null")
    /\ last' = Did("env")
    /\ UNCHANGED <<isLoggingOut, timers, timerFired, sinceLogout, location,
                   reloadPending, inflight, authState>>

ViewNext ==
    \/ AppMount
    \/ PageLoad
    \/ Redirect
    \/ \E T \in Tokens, I \in Identities : LoginSuccess(T, I)
    \/ Logout
    \/ AdminLogout
    \/ TimerFire
    \/ Tick
    \/ \E caller \in Callers, arg \in {"true", "false", "-"} :
          arg \in Args(caller) /\ Call(caller, arg)
    \/ \E req \in BagToSet(inflight), status \in Statuses \cup {NetworkFailure} :
          Settle(req, status)

ViewSpec == Init /\ [][ViewNext]_vars

----------------------------------------------------------------------------
(* The tab with every kind of storage event delivered to it *)

EventNext ==
    \/ AppMount
    \/ PageLoad
    \/ Redirect
    \/ StorageEvent
    \/ \E T \in Tokens, I \in Identities : LoginSuccess(T, I)
    \/ Logout
    \/ AdminLogout
    \/ TimerFire
    \/ Tick
    \/ \E T \in OtherTokens, I \in OtherIdentities : OtherTabLogin(T, I)
    \/ OtherTabClear
    \/ OtherKeyWritten
    \/ StorageCleared

EventSpec == Init /\ [][EventNext]_vars

\* the browser delivers every queued storage event, and React runs the mount
\* effect of a page that has loaded
DeliverySpec == EventSpec /\ WF_vars(StorageEvent) /\ WF_vars(AppMount)

----------------------------------------------------------------------------
\* the tab with several gateway calls awaiting their responses at once
ConcurrentNext ==
    \/ AppMount
    \/ PageLoad
    \/ Redirect
    \/ \E T \in Tokens, I \in Identities : LoginSuccess(T, I)
    \/ Logout
    \/ AdminLogout
    \/ TimerFire
    \/ Tick
    \/ \E fn \in Gateways : IssueUpTo(fn, MaxConcurrent)
    \/ \E req \in BagToSet(inflight), status \in Statuses \cup {NetworkFailure} :
          Respond(req, status)

ConcurrentSpec == Init /\ [][ConcurrentNext]_vars

TypeOK ==
    /\ DOMAIN localStorage \subseteq {"token", "user"}
    /\ isLoggingOut \in BOOLEAN
    /\ timerFired \in BOOLEAN
    /\ sinceLogout \in -1..LogoutDelay
    /\ Len(timers) <= MaxTimers
    /\ BagCardinality(inflight) <= MaxInflight
    /\ location \in Paths

----------------------------------------------------------------------------
(* The App component alone, over whatever the origin's storage holds *)

\* the values an entry of the origin's storage can hold when the App reads it
StoredTokens == Tokens
StoredUsers ==
    {JSONstringify(I) : I \in Identities} \cup
    {<<"undefined">>, <<"null">>, <<"{", "role">>}

Stores ==
    {EmptyStore}
    \cup {setItem(EmptyStore, "token", T) : T \in StoredTokens}
    \cup {setItem(EmptyStore, "user", U) : U \in StoredUsers}
    \cup {setItem(setItem(EmptyStore, "token", T), "user", U) :
             T \in StoredTokens, U \in StoredUsers}

AppInit ==
    /\ localStorage \in Stores
    /\ isLoggingOut = FALSE
    /\ timers = <<>>
    /\ timerFired = FALSE
    /\ sinceLogout = -1
    /\ location \in Paths
    /\ reloadPending = FALSE
    /\ inflight = EmptyBag
    /\ authState = Loading
    /\ pendingStorage = <<>>
    /\ last = Did("load")

\* an entry is set from outside this tab
EntryWritten(k, v) == OtherTabWrites(setItem(localStorage, k, v))

\* an entry is removed from outside this tab
EntryRemoved(k) == OtherTabWrites(removeItem(localStorage, k))

\* the address bar, or a <Link>
Navigate(path) ==
    /\ Mounted
    /\ path # location
    /\ location' = path
    /\ last' = Did("navigate")
    /\ UNCHANGED <<localStorage, isLoggingOut, timers, timerFired, sinceLogout,
                   reloadPending, inflight, authState, pendingStorage>>

AppNext ==
    \/ AppMount
    \/ StorageEvent
    \/ Redirect
    \/ \E T \in StoredTokens : EntryWritten("token", T)
    \/ \E U \in StoredUsers : EntryWritten("user", U)
    \/ \E k \in {"token", "user"} : EntryRemoved(k)
    \/ \E path \in Paths : Navigate(path)

AppSpec == AppInit /\ [][AppNext]_vars

----------------------------------------------------------------------------
(* Properties *)

Present(key) == key \in DOMAIN localStorage

SessionOps == {"login", "updateStoredUser", "logout", "adminLogout", "respond"}

\* C1: after each login success, updateStoredUser, logout (either layout) and
\* gateway response, 'token' and 'user' are both stored or both absent.
C1_BothOrNeither ==
    last.op \in SessionOps => (Present("token") <=> Present("user"))

\* an updateStoredUser call that wrote the merged identity next to the token
C1_Witness ==
    /\ last.op = "updateStoredUser"
    /\ Published(last.trace) = 1
    /\ Present("token")
    /\ Present("user")

\* C2: a 401 answer to authFetch or authFetchFormData removes both entries,
\* shows exactly the 'expired' notice when isLoggingOut is false and no notice
\* when it is true, sets the location to /login and raises 'Authentication
\* failed' instead of returning the response.
C2_Unauthorized ==
    (last.op = "respond" /\ last.status = 401) =>
        /\ ~Present("token")
        /\ ~Present("user")
        /\ Alerts(last.trace) = (IF isLoggingOut THEN <<>> ELSE <<ExpiredText>>)
        /\ location = "/login"
        /\ reloadPending
        /\ Error(last.trace) = AuthenticationFailed
        /\ ~Returned(last.trace)

\* an upload answered 401 while the flag is set: silent
C2_Witness ==
    /\ last.op = "respond"
    /\ last.fn = "authFetchFormData"
    /\ last.status = 401
    /\ isLoggingOut
    /\ Alerts(last.trace) = <<>>

\* C3: a 403 answer to authFetch does what a 401 answer does (both entries
\* removed, one notice unless isLoggingOut, location /login, call rejected)
\* but the notice is the 'outdated' text and the error is 'Access forbidden',
\* both different from the 401 ones.
C3_Forbidden ==
    (last.op = "respond" /\ last.fn = "authFetch" /\ last.status = 403) =>
        /\ ~Present("token")
        /\ ~Present("user")
        /\ Alerts(last.trace) = (IF isLoggingOut THEN <<>> ELSE <<OutdatedText>>)
        /\ location = "/login"
        /\ reloadPending
        /\ Error(last.trace) = AccessForbidden
        /\ ~Returned(last.trace)
        /\ Error(last.trace) # Error(authFetch(401, isLoggingOut))
        /\ \A i \in 1..Len(Alerts(last.trace)) :
              Alerts(last.trace)[i] \notin
                  {Alerts(authFetch(401, FALSE))[j] :
                      j \in 1..Len(Alerts(authFetch(401, FALSE)))}

\* a 403 answered to authFetch with the flag clear: the 'outdated' notice
C3_Witness ==
    /\ last.op = "respond"
    /\ last.fn = "authFetch"
    /\ last.status = 403
    /\ Alerts(last.trace) = <<OutdatedText>>

\* C4: a 403 answer to authFetchFormData clears the session, shows the notice
\* unless isLoggingOut, sets the location to /login and rejects the call; the
\* 403 response is not returned to the caller.
C4_UploadForbidden ==
    (last.op = "respond" /\ last.fn = "authFetchFormData" /\ last.status = 403) =>
        /\ ~Present("token")
        /\ ~Present("user")
        /\ Len(Alerts(last.trace)) = (IF isLoggingOut THEN 0 ELSE 1)
        /\ location = "/login"
        /\ Error(last.trace) # ""
        /\ ~Returned(last.trace)

\* C5: a 401 answer processed less than LogoutDelay after a self-initiated
\* logout began (logout() or AdminLayout.handleLogout) shows no notice.
C5_SilentInWindow ==
    (last.op = "respond" /\ last.status = 401 /\ InWindow) =>
        Alerts(last.trace) = <<>>

\* C6: once a logout's timer has fired, and no logout() was called since, a
\* 401 answer shows the 'expired' notice, as without any logout.
C6_NoticeAfterWindow ==
    (last.op = "respond" /\ last.status = 401 /\ timerFired) =>
        Alerts(last.trace) = Alerts(authFetch(401, FALSE))

\* a 401 answered after the timer fired, with its notice
C6_Witness ==
    /\ last.op = "respond"
    /\ last.status = 401
    /\ timerFired
    /\ sinceLogout = LogoutDelay
    /\ Alerts(last.trace) = <<ExpiredText>>

\* C7: a gateway call issued while token T is stored carries the header
\* Authorization: Bearer T, T being the token stored when the call is issued.
C7_BearerOfStoredToken ==
    (last.op = "issue" /\ Present("token")) =>
        /\ last.auth = Bearer(localStorage["token"])
        /\ \E req \in BagToSet(inflight) :
              req.fn = last.fn /\ req.auth = Bearer(localStorage["token"])

\* an upload issued under the session the other tab wrote
C7_Witness ==
    /\ last.op = "issue"
    /\ last.fn = "authFetchFormData"
    /\ Present("token")
    /\ authState.isLoggedIn
    /\ last.auth = Bearer(<<"t2">>)

\* C8: with no token stored a gateway call is dispatched all the same, without
\* Authorization header, and raises nothing before the dispatch.
C8_NoTokenNoHeader ==
    (last.op = "issue" /\ ~Present("token")) =>
        /\ last.auth = NoHeader
        /\ Error(last.trace) = ""
        /\ Select(last.trace, "fetch") # <<>>
        /\ \E req \in BagToSet(inflight) : req.fn = last.fn /\ req.auth = NoHeader

\* a call issued from a dashboard after the store was emptied under it
C8_Witness ==
    /\ last.op = "issue"
    /\ ~Present("token")
    /\ last.auth = NoHeader
    /\ BagCardinality(inflight) = 1

\* the stored identity does not parse
Malformed == Present("user") /\ JSONparse(localStorage["user"]).threw

\* C9: getCurrentUser() on a 'user' entry that is not valid JSON returns null
\* without throwing; after the entry is purged it returns null as well.
C9_MalformedReadsAbsent ==
    /\ (last.op = "getCurrentUser" /\ Malformed) =>
          (~last.threw /\ last.obj = NullObj)
    /\ (last.op = "getCurrentUser" /\ ~Present("user")) =>
          (~last.threw /\ last.obj = NullObj)

\* C10: right after login() stored token T and identity I, getToken() is T and
\* getCurrentUser() is deeply equal to I, whatever session was stored before,
\* and the App's authState already holds the new session.
C10_RoundTrip ==
    (last.op = "login" /\ last.obj # Undefined) =>
        /\ getToken(localStorage) = last.tok
        /\ ~getCurrentUser(localStorage).threw
        /\ DeepEqual(getCurrentUser(localStorage).value, last.obj)
        /\ authState.isLoggedIn
        /\ DeepEqual(authState.user, last.obj)

\* a login over the session another login had stored
C10_Witness ==
    /\ last.op = "login"
    /\ last.obj = Obj("admin", "true")
    /\ Truthy(last.before)
    /\ last.before # last.tok
    /\ getToken(localStorage) = last.tok

\* C11: updateStoredUser(partial) with no 'user' entry stored raises nothing,
\* leaves the store as it is (no 'user' entry appears) and publishes nothing.
C11_NoIdentityNoOp ==
    [][(last'.op = "updateStoredUser" /\ ~Present("user")) =>
          /\ last'.trace = <<>>
          /\ Error(last'.trace) = ""
          /\ Published(last'.trace) = 0
          /\ localStorage' = localStorage
          /\ authState' = authState]_vars

\* updateStoredUser called on a dashboard whose store was emptied under it
C11_Witness ==
    /\ last.op = "updateStoredUser"
    /\ last.before = Null
    /\ last.trace = <<>>
    /\ ~Present("user")
    /\ ~Present("token")

\* C12: updateStoredUser(partial) with identity I stored leaves 'user' holding
\* the shallow merge of partial over I (partial's fields win, I's other fields
\* stay), leaves 'token' as it was and publishes exactly one authChange.
C12_MergeKeepsToken ==
    [][(/\ last'.op = "updateStoredUser"
        /\ Present("user")
        /\ ~getCurrentUser(localStorage).threw
        /\ getCurrentUser(localStorage).value # NullObj) =>
          LET I == getCurrentUser(localStorage).value
              partial == last'.obj
              now == getCurrentUser(localStorage')
          IN  /\ ~now.threw
              /\ \A k \in Keys :
                    Get(now.value, k) = IF HasKey(partial, k) THEN Get(partial, k)
                                        ELSE Get(I, k)
              /\ Present("token") = ("token" \in DOMAIN localStorage')
              /\ getItem(localStorage', "token") = getItem(localStorage, "token")
              /\ Published(last'.trace) = 1]_vars

\* a merge whose field replaces the value stored for it, next to the token
C12_Witness ==
    /\ last.op = "updateStoredUser"
    /\ last.obj = << <<"is_available", "true">> >>
    /\ last.before =
          JSONstringify(Put(Obj("investigator", "true"), "is_available", "false"))
    /\ Present("token")
    /\ getItem(localStorage, "user") =
          JSONstringify(Put(Obj("investigator", "true"), "is_available", "true"))

\* C13: a response whose status is neither 401 nor 403 (200, 500) is returned
\* to the caller and nothing else happens: store, isLoggingOut, location and
\* authState are unchanged, no authChange is published, no notice is shown.
C13_OtherStatusesNoEffect ==
    [][(last'.op = "respond" /\ last'.status \in Statuses \ {401, 403}) =>
          /\ Returned(last'.trace)
          /\ Error(last'.trace) = ""
          /\ Published(last'.trace) = 0
          /\ Alerts(last'.trace) = <<>>
          /\ UNCHANGED <<localStorage, isLoggingOut, location, reloadPending,
                         authState>>]_vars

\* a 500 handed back to the caller of authFetch, the session still in place
C13_Witness ==
    /\ last.op = "respond"
    /\ last.fn = "authFetch"
    /\ last.status = 500
    /\ Returned(last.trace)
    /\ Present("token")
    /\ authState.isLoggedIn

\* C14: when fetch rejects, the gateway raises that same error, issues no
\* second request, and leaves store, isLoggingOut, location and authState
\* unchanged, with no notice and no authChange.
C14_NetworkFailureRethrown ==
    [][(last'.op = "respond" /\ last'.status = NetworkFailure) =>
          /\ Error(last'.trace) = FailedToFetch
          /\ ~Returned(last'.trace)
          /\ Select(last'.trace, "fetch") = <<>>
          /\ BagCardinality(inflight') = BagCardinality(inflight) - 1
          /\ Published(last'.trace) = 0
          /\ Alerts(last'.trace) = <<>>
          /\ UNCHANGED <<localStorage, isLoggingOut, location, reloadPending,
                         authState>>]_vars

\* an upload whose fetch rejected, the session still in place
C14_Witness ==
    /\ last.op = "respond"
    /\ last.fn = "authFetchFormData"
    /\ last.status = NetworkFailure
    /\ Error(last.trace) = FailedToFetch
    /\ inflight = EmptyBag
    /\ Present("token")
    /\ authState.isLoggedIn

\* a derivation pass has just run: the mount effect, or a storage event
\* handled by the mounted App
PassDone == last.op = "mount" \/ (last.op = "storage" /\ Mounted)

\* the stored pair from which a pass derives a session
Derivable ==
    /\ Present("token")
    /\ Present("user")
    /\ ~JSONparse(localStorage["user"]).threw

\* C15: after a derivation pass authState is Authenticated(identity) exactly
\* when 'token' and 'user' are both stored and 'user' parses; otherwise it is
\* Anonymous and neither entry is left in the store.
C15_DerivationRule ==
    PassDone =>
        IF Derivable
        THEN authState = Authenticated(JSONparse(localStorage["user"]).value)
        ELSE /\ authState = Anonymous
             /\ ~Present("token")
             /\ ~Present("user")

\* C16: a pass that finds both entries and cannot parse 'user' sets Anonymous
\* and removes both entries, so that the pass after it finds nothing and sets
\* Anonymous again.
C16_ParseFailurePurges ==
    [][(/\ last'.op = "mount" \/ (last'.op = "storage" /\ Mounted)
        /\ Present("token")
        /\ Malformed) =>
          /\ authState' = Anonymous
          /\ "token" \notin DOMAIN localStorage'
          /\ "user" \notin DOMAIN localStorage'
          /\ syncAuthState(localStorage') =
                [ls |-> localStorage', st |-> Anonymous]]_vars

\* the mount effect has just purged a pair whose identity did not parse
C16_Witness ==
    /\ last.op = "mount"
    /\ last.before = <<"{", "role">>
    /\ authState = Anonymous
    /\ localStorage = EmptyStore

\* the roles each protected route is declared with
AllowedAt(path) == IF path = "/dashboard/admin" THEN {"admin"} ELSE {"investigator"}

\* C17: a protected view is on screen only if authState is logged in with a
\* role the route allows; a logged-out tab is sent to /login; a logged-in role
\* the route does not allow is sent to its own home (/dashboard/admin for
\* admin, /dashboard/home otherwise), never to /login; with allowedRoles null
\* every logged-in role is let through.
C17_RoleGate ==
    (Mounted /\ location \in {"/dashboard/home", "/dashboard/admin"}) =>
        LET role == Get(authState.user, "role")
            r == Route(location, authState)
        IN  /\ Shown(location) =>
                  (authState.isLoggedIn /\ role \in AllowedAt(location))
            /\ ~authState.isLoggedIn => r.to = "/login"
            /\ (authState.isLoggedIn /\ role \notin AllowedAt(location)) =>
                  /\ r.to = IF role = "admin" THEN "/dashboard/admin"
                            ELSE "/dashboard/home"
                  /\ r.to # "/login"
            /\ ProtectedRoute(location, NullRoles, authState) =
                  IF authState.isLoggedIn THEN Stay(location) ELSE Go("/login")

\* an admin at the investigators' dashboard is sent to the admin dashboard
C17_Witness ==
    /\ Mounted
    /\ location = "/dashboard/home"
    /\ authState.isLoggedIn
    /\ Get(authState.user, "role") = "admin"
    /\ Route(location, authState) = Go("/dashboard/admin")

\* C18: authState is Loading when the document starts and until the mount
\* effect's pass; that pass ends Loading, and no later step of the same
\* document brings it back.
C18_LoadingOnlyAtStart ==
    [][/\ last.op = "load" => authState = Loading
       /\ last'.op = "mount" => (authState = Loading /\ ~authState'.isLoading)
       /\ (~authState.isLoading /\ last'.op # "load") => ~authState'.isLoading]_vars

\* a storage event handled, well after a logout, by an App that stays mounted
C18_Witness ==
    /\ last.op = "storage"
    /\ sinceLogout = LogoutDelay
    /\ ~authState.isLoading
    /\ authState.isLoggedIn

\* the position of the first statement of a kind in a trace
Pos(trace, kind) ==
    CHOOSE i \in 1..Len(trace) :
        trace[i][1] = kind /\ \A j \in 1..(i - 1) : trace[j][1] # kind

\* C19: in a 401 / 403 failure path the store is empty when authChange is
\* published, the App has derived Anonymous before the next statement runs,
\* the notice (if any) comes after that and before the navigation, and the
\* throw is last: authState is Anonymous when the caller sees the rejection.
C19_FailurePathOrder ==
    [][(/\ last'.op = "respond"
        /\ Error(last'.trace) \in {AuthenticationFailed, AccessForbidden}) =>
          LET t == last'.trace
              k == Pos(t, "authChange")
              h == Pos(t, "href")
              atPublish == Run(SubSeq(t, 1, k - 1), Ctx)
              handled == Run(SubSeq(t, 1, k), Ctx)
          IN  /\ Published(t) = 1
              /\ atPublish.ls = EmptyStore
              /\ handled.st = Anonymous
              /\ \A i \in 1..Len(t) : t[i][1] \in {"removeItem"} => i < k
              /\ \A i \in 1..Len(t) : t[i][1] = "alert" => (k < i /\ i < h)
              /\ k < h
              /\ h = Len(t) - 1
              /\ t[Len(t)][1] = "throw"
              /\ authState' = Anonymous]_vars

\* a 401 answered to authFetch with its notice, the App already logged out
C19_Witness ==
    /\ last.op = "respond"
    /\ last.fn = "authFetch"
    /\ last.status = 401
    /\ Pos(last.trace, "alert") = Pos(last.trace, "authChange") + 1
    /\ authState = Anonymous
    /\ location = "/login"

\* C20: with isLoggingOut set, a 401 or 403 answer to a gateway call still
\* removes both entries, publishes authChange, sets the location to /login
\* and rejects the call; only the notice is left out.
C20_FlagOnlySilences ==
    (last.op = "respond" /\ last.status \in {401, 403} /\ isLoggingOut) =>
        /\ ~Present("token")
        /\ ~Present("user")
        /\ Published(last.trace) = 1
        /\ location = "/login"
        /\ Error(last.trace) # ""
        /\ ~Returned(last.trace)
        /\ Alerts(last.trace) = <<>>

\* C21: logout() sets the flag, removes both entries, publishes authChange
\* and then sets the location to /login, in that order; the flag is false
\* when a page load starts, and once set it is false again later, whether or
\* not the navigation completes, given that time passes and due timers run.
C21_FlagResetsAfterLogout ==
    /\ [][last'.op = "logout" =>
            LET t == last'.trace
                f == Pos(t, "isLoggingOut")
                k == Pos(t, "authChange")
                h == Pos(t, "href")
            IN  /\ t[f] = <<"isLoggingOut", "true">>
                /\ \A i \in 1..Len(t) : t[i][1] = "removeItem" => (f < i /\ i < k)
                /\ Select(t, "removeItem") =
                      << <<"removeItem", "token">>, <<"removeItem", "user">> >>
                /\ Published(t) = 1
                /\ k < h
                /\ t[h] = <<"href", "/login">>
                /\ isLoggingOut'
                /\ localStorage' = EmptyStore
                /\ location' = "/login"]_vars
    /\ [](last.op = "load" => ~isLoggingOut)
    /\ (isLoggingOut ~> ~isLoggingOut)

\* the timer of a logout() reset the flag while the navigation it started had
\* not replaced the document
C21_Witness ==
    /\ last.op = "timer"
    /\ reloadPending
    /\ ~isLoggingOut
    /\ timers = <<>>
    /\ sinceLogout = LogoutDelay

\* C22: when a gateway call has been answered 401 / 403 and shown the notice,
\* a further call that was in flight with it and is answered 401 / 403 next,
\* the flag not set, shows no notice: one notice in total.
C22_OneNoticeInTotal ==
    [][(/\ last.op = "respond"
        /\ last.status \in {401, 403}
        /\ Alerts(last.trace) # <<>>
        /\ last'.op = "respond"
        /\ last'.status \in {401, 403}
        /\ ~isLoggingOut) =>
          Alerts(last'.trace) = <<>>]_vars

\* C23: a 401 / 403 answered to a call that was issued under an earlier token,
\* processed while the session of a later login is stored, leaves that
\* session in the store.
C23_StaleFailureKeepsNewSession ==
    [][\A req \in BagToSet(inflight) :
          (/\ inflight' = inflight (-) SetToBag({req})
           /\ last'.op = "respond"
           /\ last'.status \in {401, 403}
           /\ Present("token")
           /\ Present("user")
           /\ req.auth # NoHeader
           /\ req.auth # Bearer(getToken(localStorage))) =>
             localStorage' = localStorage]_vars

\* C24: whenever the App is mounted and no storage event is pending, authState
\* is what the derivation pass yields from the store, also after the purge of
\* ProtectedRouteWithApproval and after the write-back of DashboardHome.
C24_StatusFollowsStore ==
    (Mounted /\ pendingStorage = <<>>) => authState = syncAuthState(localStorage).st

\* C25: every step of this tab's handlers that changes 'token' or 'user'
\* publishes authChange after its last write or removal, in the same step.
C25_EveryMutationPublishes ==
    [][(localStorage' # localStorage /\ last'.op # "mount") =>
          LET t == last'.trace
          IN  /\ Published(t) >= 1
              /\ \A i \in 1..Len(t) :
                    t[i][1] \in {"setItem", "removeItem"} =>
                        \E k \in (i + 1)..Len(t) : t[k][1] = "authChange"]_vars

\* C26: a step that removes 'token' or 'user' leaves neither in the store;
\* the 401 branches of CaseDetail.load and CreateCase.handleSave, which remove
\* 'token' alone, are never taken.
C26_RemovedTogether ==
    [][\A k \in {"token", "user"} :
          (Present(k) /\ k \notin DOMAIN localStorage') => localStorage' = EmptyStore]_vars

\* CaseDetail.load answered 401: the gateway emptied the store and threw, the
\* handler's catch block ran and its own 401 branch did not
C26_Witness ==
    /\ last.op = "settle"
    /\ last.fn = "load"
    /\ last.status = 401
    /\ last.trace[Len(last.trace)] = <<"catch", AuthenticationFailed>>
    /\ Select(last.trace, "removeItem") =
          << <<"removeItem", "token">>, <<"removeItem", "user">> >>
    /\ localStorage = EmptyStore

\* C27: once mounted, the App's state changes only in a step that publishes
\* authChange or delivers a storage event whose key is 'token', 'user' or
\* null; a storage event for another key and a timer callback leave it as it is.
C27_StatusChangesOnlyInPass ==
    [][(Mounted /\ ~authState'.isLoading /\ authState' # authState) =>
          \/ Published(last'.trace) >= 1
          \/ /\ last'.op = "storage"
             /\ pendingStorage # <<>>
             /\ Head(pendingStorage) \in {"token", "user", "null"}]_vars

\* the event of an unrelated key was delivered while the store had already
\* been cleared and the event of the clearing was still queued: still logged in
C27_Witness ==
    /\ last.op = "storage"
    /\ pendingStorage = <<"null">>
    /\ localStorage = EmptyStore
    /\ authState.isLoggedIn

\* C28: when the store has been emptied outside this tab, the storage event of
\* that is queued and this tab still shows a session, the tab is Anonymous
\* later, unless a session is stored again before that; storage events are
\* delivered.
C28_CrossTabConvergence ==
    (/\ localStorage = EmptyStore
     /\ authState.isLoggedIn
     /\ \E i \in 1..Len(pendingStorage) : pendingStorage[i] \in {"token", "user", "null"})
        ~> (localStorage # EmptyStore \/ authState = Anonymous)

\* the tab never logged out itself and was on its dashboard when the storage
\* event of another tab's logout made it Anonymous
C28_Witness ==
    /\ last.op = "storage"
    /\ sinceLogout = -1
    /\ location = "/dashboard/home"
    /\ localStorage = EmptyStore
    /\ authState = Anonymous

\* C29: a 401 answered to a view's API call leaves the store without 'token'
\* and 'user' and the location at /login, with at most one notice shown.
C29_CentralAuthFailure ==
    (last.op = "settle" /\ last.status = 401) =>
        /\ ~Present("token")
        /\ ~Present("user")
        /\ location = "/login"
        /\ Len(Alerts(last.trace)) <= 1

\* C30: for every logged-in state with a stored identity the chain of
\* redirects from the current path ends in a rendered view, and for an
\* investigator whose is_approved is false or null that view is the Login view.
C30_RouteResolutionTerminates ==
    (Mounted /\ authState.isLoggedIn /\ authState.user # NullObj) =>
        /\ Resolves(location, authState, Cardinality(Paths))
        /\ (/\ Get(authState.user, "role") = "investigator"
            /\ Get(authState.user, "is_approved") \in {"false", "null"}) =>
               Lands(location, authState, Cardinality(Paths)) = "/login"

====
